---- MODULE Spec2Model ----
(***************************************************************************)
(* A model of sqsc (src/sqsc.go): a thin client over an SQS-like queue     *)
(* service.  New resolves the queue URL; Produce, Consume, Receive and     *)
(* Delete each issue one service call and unwrap its response.             *)
(*                                                                         *)
(* Go pointers are options: Nil is the nil pointer, Ptr(v) a pointer to v. *)
(* Go errors are strings, NilErr the nil error.                            *)
(***************************************************************************)
EXTENDS Integers, Sequences, FiniteSets, TLC

\* ------------------------------------------------------------------ bounds
\* Longest message list a mocked ReceiveMessage response carries.
MaxMsgs == 2
\* Largest n passed to Receive.
MaxN == 2
\* Number of concurrent callers of one client (ConcSpec).
NumCallers == 2
\* Deliveries of one message the queue service makes (QueueSpec).
MaxReceives == 2

\* ------------------------------------------------------------ Go values
Nil == <<>>
Ptr(v) == <<v>>
Deref(p) == p[1]
NilErr == "<nil>"

\* Errors the underlying SDK calls may hand back.
SessionErr == "session error"
LookupErr == "lookup error"
ServiceErr == "service error"
StaleErr == "ReceiptHandleIsInvalid"

\* Errors synthesized by the client.
ErrNoQueueUrl == "failed to get queue url"
ErrNilResponse == "received nil response with no error"
ErrNilBody == "received nil message body"
ErrNilReceiptHandle == "received nil receipt handle"
ErrMismatch == "body count and receipt handle mismatch"

\* Values the model draws message bodies, receipt handles and ids from.
Bodies == {"hello", "bye"}
Handles == {"rh1", "rh2"}
MsgIds == {"id1"}
GivenURL == "http://given"
LookedUpURL == "http://looked-up"

Callers == 1..NumCallers
\* The one caller of the sequential specifications.
Sequential == {1}

\* Sequences over S of length at most n.
RECURSIVE SeqsUpTo(_, _)
SeqsUpTo(S, n) ==
    IF n = 0 THEN {<<>>}
    ELSE LET shorter == SeqsUpTo(S, n - 1)
         IN  shorter \cup {Append(s, x) : s \in {t \in shorter : Len(t) = n - 1}, x \in S}

VARIABLES
    cfg,        \* the caller's Config, which New receives by pointer
    newState,   \* "none" before New, then "returned" or "panicked"
    client,     \* the *SQSC New returned: Nil or Ptr([sqs, config])
    newErr,     \* the error New returned
    lookups,    \* GetQueueUrl calls New has made
    newIn,      \* what New was given: Nil or Ptr([url, sesErr, lk]), lk the
                \* lookup's answer, Nil when New made no lookup
    pc,         \* per caller: "idle", "called" (request in flight), "responded"
    op,         \* per caller: the operation of its current or last call
    arg,        \* per caller: that call's arguments
    req,        \* per caller: the request handed to the service
    res,        \* per caller: the service's answer [out, err]
    out,        \* per caller: what the operation returned
    queue,      \* the queue service's messages (QueueSpec)
    held,       \* what Consume has returned: [bod, rh] pairs (QueueSpec)
    acked,      \* receipt handles whose Delete returned no error (QueueSpec)
    sent,       \* bodies whose Produce returned an id and no error (QueueSpec)
    delNote     \* about the Delete under way (QueueSpec): [second, fresh]

clientVars == <<cfg, newState, client, newErr, lookups, newIn>>
callVars == <<pc, op, arg, req, res, out>>
queueVars == <<queue, held, acked, sent, delNote>>
vars == <<cfg, newState, client, newErr, lookups, newIn, pc, op, arg, req, res, out,
          queue, held, acked, sent, delNote>>

\* ------------------------------------------------------------------- New
\* Config fields the client reads after construction, plus those New reads.
Configs ==
    [URL : {"", GivenURL}, Queue : {"q"}, ID : {"acct"}, Timeout : {30}, Wait : {5}]

\* What cli.GetQueueUrl may hand back: [out |-> *GetQueueUrlOutput, err].
LookupOutcomes ==
    [out : {Nil, Ptr([QueueUrl |-> Nil]), Ptr([QueueUrl |-> Ptr("")]),
            Ptr([QueueUrl |-> Ptr(LookedUpURL)])},
     err : {NilErr, LookupErr}]

\* The lookup branch of New: what it returns or whether it panics.
\*   [kind |-> "fail", err]  return nil, err
\*   [kind |-> "panic"]      nil pointer dereference of url.QueueUrl
\*   [kind |-> "ok", url]    cfg.URL is set to url
ResolveURL(c, lk) ==
    IF c.URL # "" THEN [kind |-> "ok", url |-> c.URL]
    ELSE IF lk.err # NilErr THEN [kind |-> "fail", err |-> lk.err]
    ELSE IF lk.out = Nil THEN [kind |-> "fail", err |-> ErrNoQueueUrl]
    ELSE IF Deref(lk.out).QueueUrl = Nil THEN [kind |-> "panic"]
    ELSE [kind |-> "ok", url |-> Deref(Deref(lk.out).QueueUrl)]

\* The error New returns beside the client on its last line: the session's.
NewFinalErr(sesErr) == sesErr

New(sesErr, lk) ==
    /\ newState = "none"
    /\ newIn' = Ptr([url |-> cfg.URL, sesErr |-> sesErr,
                     lk |-> IF cfg.URL = "" THEN Ptr(lk) ELSE Nil])
    /\ lookups' = IF cfg.URL = "" THEN lookups + 1 ELSE lookups
    /\ LET r == ResolveURL(cfg, lk)
       IN  CASE r.kind = "fail" ->
                  /\ newState' = "returned"
                  /\ client' = Nil
                  /\ newErr' = r.err
                  /\ cfg' = cfg
             [] r.kind = "panic" ->
                  /\ newState' = "panicked"
                  /\ client' = Nil
                  /\ newErr' = NilErr
                  /\ cfg' = cfg
             [] r.kind = "ok" ->
                  /\ newState' = "returned"
                  /\ cfg' = [cfg EXCEPT !.URL = r.url]
                  /\ client' = Ptr([sqs |-> "cli", config |-> cfg'])
                  /\ newErr' = NewFinalErr(sesErr)
    /\ UNCHANGED <<callVars, queueVars>>

Constructed == newState = "returned" /\ client # Nil
C == Deref(client)

\* --------------------------------------------------------------- Produce
ProduceReq(c, bod, del) ==
    [api |-> "SendMessage", QueueUrl |-> c.config.URL,
     MessageBody |-> bod, DelaySeconds |-> del]

\* r is what c.sqs.SendMessage handed back: [out |-> *SendMessageOutput, err].
ProduceOut(r) ==
    [id  |-> IF r.out # Nil /\ Deref(r.out).MessageId # Nil
             THEN Deref(Deref(r.out).MessageId)
             ELSE "",
     err |-> r.err]

\* --------------------------------------------------------------- Receive
\* Mutant of ReceiveReq: the client keeps the caller's *Config instead of a
\* copy, so the request reads the caller's struct as it is now.
ReceiveReqSharedConfig(c, n) ==
    [api |-> "ReceiveMessage", QueueUrl |-> cfg.URL,
     VisibilityTimeout |-> cfg.Timeout,
     WaitTimeSeconds |-> cfg.Wait,
     MaxNumberOfMessages |-> n]

ReceiveReq(c, n) ==
    [api |-> "ReceiveMessage", QueueUrl |-> c.config.URL,
     VisibilityTimeout |-> c.config.Timeout,
     WaitTimeSeconds |-> c.config.Wait,
     MaxNumberOfMessages |-> n]

\* Mutant of NilReceiptHandleErr: the break is taken with err left nil.
NilReceiptHandleErrUnset == NilErr

\* The error set when a message's receipt handle is nil.
NilReceiptHandleErr == ErrNilReceiptHandle

\* Mutant of ReceiveLoop: an entry with a nil field is skipped (continue)
\* where the code sets the error and breaks.
RECURSIVE ReceiveLoopContinue(_, _, _, _)
ReceiveLoopContinue(msgs, i, bods, rhs) ==
    IF i > Len(msgs) THEN [bods |-> bods, rhs |-> rhs, err |-> NilErr]
    ELSE IF msgs[i].Body = Nil \/ msgs[i].ReceiptHandle = Nil
         THEN ReceiveLoopContinue(msgs, i + 1, bods, rhs)
    ELSE ReceiveLoopContinue(msgs, i + 1, Append(bods, Deref(msgs[i].Body)),
                             Append(rhs, Deref(msgs[i].ReceiptHandle)))

\* The loop over res.Messages from entry i on, with the break on a nil field.
RECURSIVE ReceiveLoop(_, _, _, _)
ReceiveLoop(msgs, i, bods, rhs) ==
    IF i > Len(msgs) THEN [bods |-> bods, rhs |-> rhs, err |-> NilErr]
    ELSE IF msgs[i].Body = Nil
         THEN [bods |-> bods, rhs |-> rhs, err |-> ErrNilBody]
    ELSE LET bods2 == Append(bods, Deref(msgs[i].Body))
         IN  IF msgs[i].ReceiptHandle = Nil
             THEN [bods |-> bods2, rhs |-> rhs, err |-> NilReceiptHandleErr]
             ELSE ReceiveLoop(msgs, i + 1, bods2,
                              Append(rhs, Deref(msgs[i].ReceiptHandle)))

\* The error Receive continues with after looking at the call's (res, err).
ReceiveCallErr(r) ==
    IF r.out = Nil /\ r.err = NilErr THEN ErrNilResponse ELSE r.err

\* Mutant of ReceiveOut: the early return is taken only when there is no
\* response, so a response that comes with an error is still unpacked.
ReceiveOutUnpacksOnError(r) ==
    IF r.out = Nil
    THEN [bods |-> <<>>, rhs |-> <<>>, err |-> ReceiveCallErr(r)]
    ELSE LET l == ReceiveLoop(Deref(r.out).Messages, 1, <<>>, <<>>)
         IN  [l EXCEPT !.err = IF r.err # NilErr THEN r.err ELSE l.err]

\* r is what c.sqs.ReceiveMessage handed back: [out |-> *ReceiveMessageOutput, err].
ReceiveOut(r) ==
    IF ReceiveCallErr(r) # NilErr
    THEN [bods |-> <<>>, rhs |-> <<>>, err |-> ReceiveCallErr(r)]
    ELSE ReceiveLoop(Deref(r.out).Messages, 1, <<>>, <<>>)

\* --------------------------------------------------------------- Consume
MismatchErr(lb, lrh) ==
    ErrMismatch \o ": " \o ToString(lb) \o " != " \o ToString(lrh)

\* Mutant of ConsumeUnwrap: no early return on Receive's error, so the
\* partial results are unwrapped beside it.
ConsumeUnwrapNoEarlyReturn(rc) ==
    [bod |-> IF Len(rc.bods) > 0 THEN rc.bods[1] ELSE "",
     rh  |-> IF Len(rc.rhs) > 0 THEN rc.rhs[1] ELSE "",
     err |-> rc.err]

\* Consume, given what its Receive(1) call returned.
ConsumeUnwrap(rc) ==
    IF rc.err # NilErr THEN [bod |-> "", rh |-> "", err |-> rc.err]
    ELSE [bod |-> IF Len(rc.bods) > 0 THEN rc.bods[1] ELSE "",
          rh  |-> IF Len(rc.rhs) > 0 THEN rc.rhs[1] ELSE "",
          err |-> IF Len(rc.bods) # Len(rc.rhs)
                  THEN MismatchErr(Len(rc.bods), Len(rc.rhs))
                  ELSE NilErr]

ConsumeOut(r) == ConsumeUnwrap(ReceiveOut(r))

\* ---------------------------------------------------------------- Delete
\* Mutant of DeleteReq: the request carries no receipt handle.
DeleteReqNoHandle(c, rh) ==
    [api |-> "DeleteMessage", QueueUrl |-> c.config.URL, ReceiptHandle |-> ""]

DeleteReq(c, rh) ==
    [api |-> "DeleteMessage", QueueUrl |-> c.config.URL, ReceiptHandle |-> rh]

\* sqs.DeleteMessageOutput has no exported field; its String() is the SDK's
\* pretty-print of an empty struct.
DeleteMessageOutput == [fields |-> <<>>]
String(o) == "{\n\n}"

\* r is what c.sqs.DeleteMessage handed back: [out |-> *DeleteMessageOutput, err].
DeleteOut(r) ==
    [bod |-> IF r.out # Nil THEN String(Deref(r.out)) ELSE "",
     err |-> r.err]

\* ------------------------------------------------- calls, one per caller
\* A caller enters an operation: the request is built from the client and
\* handed to the service.
Enter(p, o, a, rq) ==
    /\ Constructed
    /\ pc[p] = "idle"
    /\ pc' = [pc EXCEPT ![p] = "called"]
    /\ op' = [op EXCEPT ![p] = o]
    /\ arg' = [arg EXCEPT ![p] = a]
    /\ req' = [req EXCEPT ![p] = rq]
    /\ res' = [res EXCEPT ![p] = Nil]
    /\ out' = [out EXCEPT ![p] = Nil]
    /\ UNCHANGED clientVars

ProduceCall(p, bod, del) == Enter(p, "Produce", <<bod, del>>, ProduceReq(C, bod, del))
ConsumeCall(p) == Enter(p, "Consume", <<>>, ReceiveReq(C, 1))
ReceiveCall(p, n) == Enter(p, "Receive", <<n>>, ReceiveReq(C, n))
DeleteCall(p, rh) == Enter(p, "Delete", <<rh>>, DeleteReq(C, rh))

\* The service call of caller p comes back with r.
Answer(p, api, r) ==
    /\ pc[p] = "called"
    /\ req[p].api = api
    /\ pc' = [pc EXCEPT ![p] = "responded"]
    /\ res' = [res EXCEPT ![p] = Ptr(r)]
    /\ UNCHANGED <<op, arg, req, out, clientVars>>

\* The operation of caller p returns o.
Leave(p, o, result) ==
    /\ pc[p] = "responded"
    /\ op[p] = o
    /\ pc' = [pc EXCEPT ![p] = "idle"]
    /\ out' = [out EXCEPT ![p] = Ptr(result)]
    /\ UNCHANGED <<op, arg, req, res, clientVars>>

ProduceReturn(p) == Leave(p, "Produce", ProduceOut(Deref(res[p])))
ConsumeReturn(p) == Leave(p, "Consume", ConsumeOut(Deref(res[p])))
ReceiveReturn(p) == Leave(p, "Receive", ReceiveOut(Deref(res[p])))
DeleteReturn(p) == Leave(p, "Delete", DeleteOut(Deref(res[p])))

\* ------------------------------------------- a service that may do anything
Messages == [Body : {Nil} \cup {Ptr(b) : b \in Bodies},
             ReceiptHandle : {Nil} \cup {Ptr(h) : h \in Handles}]

SendOutcomes ==
    [out : {Nil, Ptr([MessageId |-> Nil])} \cup {Ptr([MessageId |-> Ptr(i)]) : i \in MsgIds},
     err : {NilErr, ServiceErr}]

ReceiveOutcomes(maxLen) ==
    [out : {Nil} \cup {Ptr([Messages |-> ms]) : ms \in SeqsUpTo(Messages, maxLen)},
     err : {NilErr, ServiceErr}]

DeleteOutcomes ==
    [out : {Nil, Ptr(DeleteMessageOutput)}, err : {NilErr, ServiceErr}]

\* Every answer to a receive call the sequential specification draws from.
AllReceiveOutcomes == ReceiveOutcomes(MaxMsgs)

\* The service answers caller p's call with one of outs.
SendMessage(p, outs) == \E r \in outs : Answer(p, "SendMessage", r)
ReceiveMessage(p, outs) == \E r \in outs : Answer(p, "ReceiveMessage", r)
DeleteMessage(p, outs) == \E r \in outs : Answer(p, "DeleteMessage", r)

\* ------------------------------------------------------------------ Spec
\* One caller; the service may answer every call with anything.
NoCalls == [p \in Callers |-> Nil]

Init ==
    /\ cfg \in Configs
    /\ newState = "none"
    /\ client = Nil
    /\ newErr = NilErr
    /\ lookups = 0
    /\ newIn = Nil
    /\ pc = [p \in Callers |-> "idle"]
    /\ op = [p \in Callers |-> "none"]
    /\ arg = NoCalls
    /\ req = NoCalls
    /\ res = NoCalls
    /\ out = NoCalls
    /\ queue = <<>>
    /\ held = {}
    /\ acked = {}
    /\ sent = {}
    /\ delNote = [second |-> FALSE, fresh |-> FALSE]

Construct ==
    \E sesErr \in {NilErr, SessionErr}, lk \in LookupOutcomes : New(sesErr, lk)

Next ==
    \/ Construct
    \/ \E p \in Sequential :
         \/ \E b \in Bodies, d \in {0, 1} : ProduceCall(p, b, d) /\ UNCHANGED queueVars
         \/ ConsumeCall(p) /\ UNCHANGED queueVars
         \/ \E n \in 1..MaxN : ReceiveCall(p, n) /\ UNCHANGED queueVars
         \/ \E h \in Handles : DeleteCall(p, h) /\ UNCHANGED queueVars
         \/ SendMessage(p, SendOutcomes) /\ UNCHANGED queueVars
         \/ ReceiveMessage(p, AllReceiveOutcomes) /\ UNCHANGED queueVars
         \/ DeleteMessage(p, DeleteOutcomes) /\ UNCHANGED queueVars
         \/ ProduceReturn(p) /\ UNCHANGED queueVars
         \/ ConsumeReturn(p) /\ UNCHANGED queueVars
         \/ ReceiveReturn(p) /\ UNCHANGED queueVars
         \/ DeleteReturn(p) /\ UNCHANGED queueVars

Spec == Init /\ [][Next]_vars

\* -------------------------------------------------------------- ConcSpec
\* Several callers share the client; their calls interleave at the service
\* call.  The caller that built the client may go on to edit its own Config.
EditedURL == "http://edited"

EditConfig ==
    /\ Constructed
    /\ cfg.URL # EditedURL
    /\ cfg' = [cfg EXCEPT !.URL = EditedURL]
    /\ UNCHANGED <<newState, client, newErr, lookups, newIn, callVars, queueVars>>

GoodMessage == [Body |-> Ptr("hello"), ReceiptHandle |-> Ptr("rh1")]
NoHandleMessage == [Body |-> Ptr("hello"), ReceiptHandle |-> Nil]

ConcSendOutcomes ==
    {[out |-> Ptr([MessageId |-> Ptr("id1")]), err |-> NilErr],
     [out |-> Nil, err |-> ServiceErr]}
ConcReceiveOutcomes ==
    {[out |-> Ptr([Messages |-> <<GoodMessage>>]), err |-> NilErr],
     [out |-> Ptr([Messages |-> <<NoHandleMessage>>]), err |-> NilErr],
     [out |-> Nil, err |-> ServiceErr]}
ConcDeleteOutcomes ==
    {[out |-> Nil, err |-> NilErr], [out |-> Nil, err |-> ServiceErr]}

ConcNext ==
    \/ Construct
    \/ EditConfig
    \/ \E p \in Callers :
         \/ ProduceCall(p, "hello", 0) /\ UNCHANGED queueVars
         \/ ConsumeCall(p) /\ UNCHANGED queueVars
         \/ ReceiveCall(p, MaxN) /\ UNCHANGED queueVars
         \/ DeleteCall(p, "rh1") /\ UNCHANGED queueVars
         \/ SendMessage(p, ConcSendOutcomes) /\ UNCHANGED queueVars
         \/ ReceiveMessage(p, ConcReceiveOutcomes) /\ UNCHANGED queueVars
         \/ DeleteMessage(p, ConcDeleteOutcomes) /\ UNCHANGED queueVars
         \/ ProduceReturn(p) /\ UNCHANGED queueVars
         \/ ConsumeReturn(p) /\ UNCHANGED queueVars
         \/ ReceiveReturn(p) /\ UNCHANGED queueVars
         \/ DeleteReturn(p) /\ UNCHANGED queueVars

ConcSpec == Init /\ [][ConcNext]_vars

\* ------------------------------------------------------------- QueueSpec
\* One caller against a working queue service: at-least-once delivery with a
\* visibility timeout, a receipt handle per delivery that deletes the message
\* until the timeout elapses or the message is deleted.
QueueURLs == {GivenURL, LookedUpURL}
NoQueueErr == "AWS.SimpleQueueService.NonExistentQueue"
MsgId(i) == "m" \o ToString(i)
Handle(i, n) == "rh-" \o ToString(i) \o "-" \o ToString(n)
QBodies == {queue[i].body : i \in 1..Len(queue)}
\* The message a receipt handle is current for, if any.
CurrentOf(h) ==
    {i \in 1..Len(queue) :
        queue[i].state = "inflight" /\ Handle(i, queue[i].rc) = h}

\* A request for a queue the service does not have.
QReject(p) ==
    /\ pc[p] = "called"
    /\ req[p].QueueUrl \notin QueueURLs
    /\ Answer(p, req[p].api, [out |-> Nil, err |-> NoQueueErr])
    /\ UNCHANGED queueVars

QSend(p) ==
    /\ pc[p] = "called"
    /\ req[p].QueueUrl \in QueueURLs
    /\ req[p].api = "SendMessage"
    /\ queue' = Append(queue,
                       [body |-> req[p].MessageBody,
                        state |-> IF req[p].DelaySeconds = 0 THEN "visible" ELSE "delayed",
                        rc |-> 0])
    /\ Answer(p, "SendMessage",
              [out |-> Ptr([MessageId |-> Ptr(MsgId(Len(queue) + 1))]), err |-> NilErr])
    /\ UNCHANGED <<held, acked, sent, delNote>>

\* The delay of message i elapses.
QDelayElapses(i) ==
    /\ i \in 1..Len(queue)
    /\ queue[i].state = "delayed"
    /\ queue' = [queue EXCEPT ![i].state = "visible"]
    /\ UNCHANGED <<clientVars, callVars, held, acked, sent, delNote>>

\* A receive that finds nothing to hand out (or hands out nothing).
QReceiveEmpty(p) ==
    /\ pc[p] = "called"
    /\ req[p].QueueUrl \in QueueURLs
    /\ Answer(p, "ReceiveMessage", [out |-> Ptr([Messages |-> <<>>]), err |-> NilErr])
    /\ UNCHANGED queueVars

\* A receive that delivers message i under a new receipt handle.
QDeliver(p, i) ==
    /\ pc[p] = "called"
    /\ req[p].QueueUrl \in QueueURLs
    /\ req[p].api = "ReceiveMessage"
    /\ req[p].MaxNumberOfMessages >= 1
    /\ i \in 1..Len(queue)
    /\ queue[i].state = "visible"
    /\ queue[i].rc < MaxReceives
    /\ queue' = [queue EXCEPT ![i].state = "inflight", ![i].rc = @ + 1]
    /\ Answer(p, "ReceiveMessage",
              [out |-> Ptr([Messages |->
                      <<[Body |-> Ptr(queue[i].body),
                         ReceiptHandle |-> Ptr(Handle(i, queue[i].rc + 1))]>>]),
               err |-> NilErr])
    /\ UNCHANGED <<held, acked, sent, delNote>>

\* The visibility timeout of a delivery of message i elapses.
QTimeout(i) ==
    /\ i \in 1..Len(queue)
    /\ queue[i].state = "inflight"
    /\ queue' = [queue EXCEPT ![i].state = "visible"]
    /\ UNCHANGED <<clientVars, callVars, held, acked, sent, delNote>>

QDelete(p) ==
    /\ pc[p] = "called"
    /\ req[p].QueueUrl \in QueueURLs
    /\ req[p].api = "DeleteMessage"
    /\ delNote' = [delNote EXCEPT !.fresh = CurrentOf(arg[p][1]) # {}]
    /\ IF CurrentOf(req[p].ReceiptHandle) # {}
       THEN /\ queue' = [i \in 1..Len(queue) |->
                           IF i \in CurrentOf(req[p].ReceiptHandle)
                           THEN [queue[i] EXCEPT !.state = "deleted"]
                           ELSE queue[i]]
            /\ \E o \in {Nil, Ptr(DeleteMessageOutput)} :
                 Answer(p, "DeleteMessage", [out |-> o, err |-> NilErr])
       ELSE /\ queue' = queue
            /\ Answer(p, "DeleteMessage", [out |-> Nil, err |-> StaleErr])
    /\ UNCHANGED <<held, acked, sent>>

\* The caller's steps, with what it has seen so far.
QProduceCall(p, b, d) ==
    /\ b \notin QBodies
    /\ ProduceCall(p, b, d)
    /\ UNCHANGED queueVars

QConsumeCall(p) == ConsumeCall(p) /\ UNCHANGED queueVars

QDeleteCall(p, h) ==
    /\ DeleteCall(p, h)
    /\ delNote' = [second |-> h \in acked, fresh |-> FALSE]
    /\ UNCHANGED <<queue, held, acked, sent>>

QProduceReturn(p) ==
    /\ ProduceReturn(p)
    /\ sent' = IF Deref(out'[p]).err = NilErr /\ Deref(out'[p]).id # ""
               THEN sent \cup {arg[p][1]}
               ELSE sent
    /\ UNCHANGED <<queue, held, acked, delNote>>

QConsumeReturn(p) ==
    /\ ConsumeReturn(p)
    /\ held' = IF Deref(out'[p]).err = NilErr /\ Deref(out'[p]).rh # ""
               THEN held \cup {[bod |-> Deref(out'[p]).bod, rh |-> Deref(out'[p]).rh]}
               ELSE held
    /\ UNCHANGED <<queue, acked, sent, delNote>>

QDeleteReturn(p) ==
    /\ DeleteReturn(p)
    /\ acked' = IF Deref(out'[p]).err = NilErr THEN acked \cup {arg[p][1]} ELSE acked
    /\ UNCHANGED <<queue, held, sent, delNote>>

QueueNext ==
    \/ Construct
    \/ \E i \in 1..Len(queue) : QDelayElapses(i)
    \/ \E i \in 1..Len(queue) : QTimeout(i)
    \/ \E p \in Sequential :
         \/ \E b \in Bodies, d \in {0, 1} : QProduceCall(p, b, d)
         \/ QConsumeCall(p)
         \/ \E x \in held : QDeleteCall(p, x.rh)
         \/ QReject(p)
         \/ QSend(p)
         \/ QReceiveEmpty(p)
         \/ \E i \in 1..Len(queue) : QDeliver(p, i)
         \/ QDelete(p)
         \/ QProduceReturn(p)
         \/ QConsumeReturn(p)
         \/ QDeleteReturn(p)

\* The caller keeps calling Consume and every call comes back; the service
\* lets delays elapse and, asked again and again, hands out a visible message.
QueueFairness ==
    /\ \A p \in Sequential :
         /\ SF_vars(QConsumeCall(p))
         /\ WF_vars(QReject(p) \/ QSend(p) \/ QReceiveEmpty(p) \/ QDelete(p))
         /\ WF_vars(QProduceReturn(p) \/ QConsumeReturn(p) \/ QDeleteReturn(p))
         /\ \A i \in 1..Cardinality(Bodies) : SF_vars(QDeliver(p, i))
    /\ \A i \in 1..Cardinality(Bodies) : WF_vars(QDelayElapses(i))

QueueSpec == Init /\ [][QueueNext]_vars /\ QueueFairness

\* ---------------------------------------------------------------- claims
Returned(p, o) == pc[p] = "idle" /\ op[p] = o /\ out[p] # Nil
R(p) == Deref(res[p])
O(p) == Deref(out[p])
Msgs(p) == Deref(R(p).out).Messages
Malformed(m) == m.Body = Nil \/ m.ReceiptHandle = Nil
\* A Receive (or Consume) whose service call handed back a message list, no error.
GotMessages(p) == R(p).err = NilErr /\ R(p).out # Nil
FirstMalformed(ms) ==
    CHOOSE i \in 1..Len(ms) : Malformed(ms[i]) /\ \A j \in 1..(i - 1) : ~Malformed(ms[j])
First(s) == IF Len(s) > 0 THEN s[1] ELSE ""

\* C1: when the response's first malformed entry is preceded by k well-formed
\* ones, Receive returns a non-nil error with exactly k bodies and k receipt
\* handles, those of the k entries before it, index-aligned.
C1_PartialResultsAligned ==
    \A p \in Callers :
        (Returned(p, "Receive") /\ GotMessages(p)
            /\ \E i \in 1..Len(Msgs(p)) : Malformed(Msgs(p)[i]))
        => LET k == FirstMalformed(Msgs(p)) - 1
           IN  /\ O(p).err # NilErr
               /\ Len(O(p).bods) = k
               /\ Len(O(p).rhs) = k
               /\ \A i \in 1..k :
                    /\ O(p).bods[i] = Deref(Msgs(p)[i].Body)
                    /\ O(p).rhs[i] = Deref(Msgs(p)[i].ReceiptHandle)

\* C2 as stated: Consume returns the first element of each sequence Receive(1)
\* yields on the same service outcome (empty string for an empty sequence),
\* with the same error.
C2_ConsumeIsFirstOfReceive ==
    \A p \in Callers :
        Returned(p, "Consume")
        => LET rc == ReceiveOut(R(p))
           IN  O(p) = [bod |-> First(rc.bods), rh |-> First(rc.rhs), err |-> rc.err]

\* C2 amended: when Receive(1) yields a nil error Consume returns the first
\* element of each sequence (empty string for an empty one) and a nil error;
\* when Receive(1) yields an error Consume returns that error with an empty
\* body and an empty receipt handle, whatever partial results came with it.
C2_ConsumeOfReceive ==
    \A p \in Callers :
        Returned(p, "Consume")
        => LET rc == ReceiveOut(R(p))
           IN  IF rc.err = NilErr
               THEN O(p) = [bod |-> First(rc.bods), rh |-> First(rc.rhs), err |-> NilErr]
               ELSE O(p) = [bod |-> "", rh |-> "", err |-> rc.err]

\* C2 witness: a Consume has returned an error although its Receive(1) had
\* parsed a first entry.
C2_Witness ==
    \E p \in Callers :
        /\ Returned(p, "Consume")
        /\ ReceiveOut(R(p)).err # NilErr
        /\ Len(ReceiveOut(R(p)).bods) > 0
        /\ O(p).bod = ""

\* C3: a Receive that returns a nil error returns one body and one receipt
\* handle per message of the response, in the response's order.
C3_SuccessAligned ==
    \A p \in Callers :
        (Returned(p, "Receive") /\ O(p).err = NilErr)
        => /\ R(p).out # Nil
           /\ Len(O(p).bods) = Len(Msgs(p))
           /\ Len(O(p).rhs) = Len(Msgs(p))
           /\ \A i \in 1..Len(Msgs(p)) :
                /\ O(p).bods[i] = Deref(Msgs(p)[i].Body)
                /\ O(p).rhs[i] = Deref(Msgs(p)[i].ReceiptHandle)

\* C3 witness: a Receive has returned a nil error on a response of several
\* messages that differ in body and in receipt handle.
C3_Witness ==
    \E p \in Callers :
        /\ Returned(p, "Receive")
        /\ O(p).err = NilErr
        /\ Len(O(p).bods) >= 2
        /\ O(p).bods[1] # O(p).bods[2]
        /\ O(p).rhs[1] # O(p).rhs[2]

NewIn == Deref(newIn)
\* The lookup handed back no usable URL: an error, a nil result, or a result
\* whose URL is nil or empty.
LookupGaveNoURL(lk) ==
    \/ lk.err # NilErr
    \/ lk.out = Nil
    \/ Deref(lk.out).QueueUrl = Nil
    \/ Deref(lk.out).QueueUrl = Ptr("")

\* C4: New makes exactly one lookup call when the configuration omits the
\* queue URL and none when it supplies one; and when that call errors, or
\* hands back nil or no URL, New returns an error and no client (no panic).
C4_LookupContract ==
    newState # "none"
    => /\ NewIn.url # "" => lookups = 0
       /\ NewIn.url = "" => lookups = 1
       /\ (NewIn.url = "" /\ LookupGaveNoURL(Deref(NewIn.lk)))
            => (newState = "returned" /\ client = Nil /\ newErr # NilErr)

\* C5: New returns a client or an error, never both; and when the session
\* fails it returns that failure and no client.
C5_ClientOrError ==
    newState = "returned"
    => /\ (client = Nil) # (newErr = NilErr)
       /\ NewIn.sesErr # NilErr => (client = Nil /\ newErr = NewIn.sesErr)

\* C6: when the delete call returns no error, Delete returns a nil error and
\* an empty response string, whether the response object is nil or not.
C6_DeleteSuccessIsEmpty ==
    \A p \in Callers :
        (Returned(p, "Delete") /\ R(p).err = NilErr)
        => (O(p).err = NilErr /\ O(p).bod = "")

NoResults(e) == [bods |-> <<>>, rhs |-> <<>>, err |-> e]

\* C9: when the receive call returns an error, Receive returns that error
\* with both sequences empty, whatever response came with it; when the call
\* returns a nil response and no error, Receive returns the synthesized error
\* with both sequences empty.
C9_CallErrorsEmpty ==
    \A p \in Callers :
        Returned(p, "Receive")
        => /\ R(p).err # NilErr => O(p) = NoResults(R(p).err)
           /\ (R(p).err = NilErr /\ R(p).out = Nil) => O(p) = NoResults(ErrNilResponse)

\* C9 witness: a Receive has returned on a call that failed and yet handed
\* back a response with a well-formed message.
C9_Witness ==
    \E p \in Callers :
        /\ Returned(p, "Receive")
        /\ R(p).err # NilErr
        /\ R(p).out # Nil
        /\ Len(Msgs(p)) > 0
        /\ ~Malformed(Msgs(p)[1])

MismatchErrs == {MismatchErr(a, b) : a, b \in 0..(MaxMsgs + 1)}

\* C10: Receive's sequences have equal length whenever its error is nil, and
\* when they differ the bodies are one longer and the error is non-nil; so
\* Consume never returns the mismatch error, and on sequences that differ it
\* returns Receive's error with an empty body and an empty receipt handle.
C10_MismatchUnreachable ==
    \A p \in Callers :
        /\ Returned(p, "Receive")
           => /\ O(p).err = NilErr => Len(O(p).bods) = Len(O(p).rhs)
              /\ Len(O(p).bods) # Len(O(p).rhs)
                   => (O(p).err # NilErr /\ Len(O(p).bods) = Len(O(p).rhs) + 1)
        /\ Returned(p, "Consume")
           => /\ O(p).err \notin MismatchErrs
              /\ LET rc == ReceiveOut(R(p))
                 IN  Len(rc.bods) # Len(rc.rhs)
                     => O(p) = [bod |-> "", rh |-> "", err |-> rc.err]

\* C10 witness: a Consume has returned on a response whose first message has
\* a body and a nil receipt handle, where Receive's sequences differ.
C10_Witness ==
    \E p \in Callers :
        /\ Returned(p, "Consume")
        /\ GotMessages(p)
        /\ Len(Msgs(p)) > 0
        /\ Msgs(p)[1].Body # Nil
        /\ Msgs(p)[1].ReceiptHandle = Nil
        /\ Len(ReceiveOut(R(p)).bods) = Len(ReceiveOut(R(p)).rhs) + 1

\* The queue URL New resolved: the configured one, else the looked-up one.
ResolvedURL ==
    IF NewIn.url # "" THEN NewIn.url
    ELSE Deref(Deref(Deref(NewIn.lk).out).QueueUrl)

\* What operation o returns on the service answer r.
OpOut(o, r) ==
    CASE o = "Produce" -> ProduceOut(r)
      [] o = "Consume" -> ConsumeOut(r)
      [] o = "Receive" -> ReceiveOut(r)
      [] o = "Delete" -> DeleteOut(r)

\* C8: once New has returned a client, no step of any caller changes the
\* client; every request in flight carries the queue URL (and the timeout and
\* wait time) resolved at construction; and a call that returns yields the
\* result of its own operation on its own service answer, leaving every other
\* caller's call as it was.
C8_ClientImmutable ==
    [][Constructed =>
        /\ client' = client
        /\ C.config.URL = ResolvedURL
        /\ \A p \in Callers :
             pc'[p] = "called"
             => /\ req'[p].QueueUrl = ResolvedURL
                /\ req'[p].api = "ReceiveMessage"
                     => /\ req'[p].VisibilityTimeout = C.config.Timeout
                        /\ req'[p].WaitTimeSeconds = C.config.Wait
        /\ \A p \in Callers :
             (pc[p] = "responded" /\ pc'[p] = "idle")
             => /\ out'[p] = Ptr(OpOut(op[p], R(p)))
                /\ \A q \in Callers \ {p} :
                     /\ pc'[q] = pc[q]
                     /\ req'[q] = req[q]
                     /\ res'[q] = res[q]
                     /\ out'[q] = out[q]]_vars

\* C8 witness: two callers are inside different operations at once, one with
\* its request in flight and one with its answer back, on a client whose
\* looked-up URL differs from what the caller's Config now holds.
C8_Witness ==
    /\ Constructed
    /\ NewIn.url = ""
    /\ cfg.URL # C.config.URL
    /\ \E p, q \in Callers :
         /\ p # q
         /\ pc[p] = "called" /\ op[p] = "Receive"
         /\ pc[q] = "responded" /\ op[q] = "Delete"
         /\ req[p].QueueUrl = ResolvedURL

\* The bodies Consume returned with receipt handle h.
BodyOfHandle(h) == {x.bod : x \in {y \in held : y.rh = h}}
\* Bodies of the messages whose Delete has come back with no error.
AckedBodies == UNION {BodyOfHandle(h) : h \in acked}
\* A Consume has returned "hello" with a receipt handle and no error.
HelloConsumed == \E x \in held : x.bod = "hello" /\ x.rh # ""

\* C7: against a working queue, once Produce("hello", d) has returned an id
\* and no error, repeated Consume calls eventually return "hello" with a
\* receipt handle and no error; a Delete of a handle that is still current
\* returns no error; a message so deleted is never returned by Consume again;
\* and a Delete with a handle already deleted with returns an error.
C7_RoundTrip ==
    /\ ("hello" \in sent) ~> HelloConsumed
    /\ [](\A p \in Sequential :
            /\ (Returned(p, "Delete") /\ delNote.fresh) => O(p).err = NilErr
            /\ (Returned(p, "Delete") /\ delNote.second) => O(p).err # NilErr
            /\ (Returned(p, "Consume") /\ O(p).err = NilErr /\ O(p).bod # "")
                 => (O(p).rh # "" /\ O(p).bod \notin AckedBodies))

\* C7 witness: "hello" was produced, consumed and deleted, and a second
\* Delete with the same handle has come back with an error.
C7_Witness ==
    \E p \in Sequential :
        /\ "hello" \in sent
        /\ "hello" \in AckedBodies
        /\ Returned(p, "Delete")
        /\ delNote.second
        /\ "hello" \in BodyOfHandle(arg[p][1])
        /\ O(p).err = StaleErr

====
